---- MODULE Spec2Model ----
(***************************************************************************)
(* Settlement synchronisation of chat-backend (src/watcher.go).            *)
(*                                                                         *)
(* main() runs checkPayments() once, then watchInvoices(), then starts the *)
(* HTTP server.  checkPayments lists the unsettled "messages" documents    *)
(* and asks lnd about each one; watchInvoices consumes lnd's invoice       *)
(* subscription and marks the matching document settled.  A step of the    *)
(* model is one remote call that reads or writes shared state (a Firestore *)
(* query or update, an lnd lookup, subscribe or receive) together with the *)
(* local code and the state-free calls (getClient, DecodePayReq) leading   *)
(* to it; whether a call succeeds or fails is chosen by the environment.   *)
(***************************************************************************)
EXTENDS Integers, Sequences, FiniteSets

\* ------------------------------------------------------------------ bounds
NumRecords == 2        \* documents in the "messages" collection
NumInvoices == 1       \* invoices lnd can hold

Recs == 1..NumRecords
Invoices == 1..NumInvoices

\* The payment requests a document can carry: those of lnd's invoices, and 0,
\* the payment request of an invoice made by another lnd (the test/prod
\* mismatch the comment at lines 53-54 describes), which this lnd never has.
PayReqs == 0..NumInvoices

\* decoded.GetPaymentHash(): the payment hash of a payment request.  lnd keys
\* its invoices by hash, Firestore stores the payment request.
PaymentHashOf(pr) == 100 + pr

Hashes == {PaymentHashOf(pr) : pr \in Invoices}

\* Invoice.PaymentRequest of the lnd invoice with payment hash h.
PayReqOf(h) == CHOOSE pr \in Invoices : PaymentHashOf(pr) = h

VARIABLES
    store,       \* Firestore "messages": record -> [invoice, settled]
    ledger,      \* lnd: payment hash -> "absent" | "open" | "settled"
    mpc,         \* main(): "init" | "check" | "watch" | "serve" | "exit"
    spc,         \* checkPayments: "idle" | "list" | "lookup" | "update" | "done"
    snapshot,    \* checkPayments: result of it.GetAll(), a sequence of records
    si,          \* checkPayments: index of the loop over snapshot
    wpc,         \* watchInvoices: "idle" | "subscribe" | "recv" | "query" | "update" | "returned"
    subscribed,  \* the invoice subscription is open on lnd's side
    queue,       \* events sent by lnd on the subscription, not yet received
    streamEnd,   \* "none" | "eof" | "err": how the subscription ended
    sendClosed,  \* sub.CloseSend() was called
    ev,          \* watchInvoices: the invoice returned by the last sub.Recv()
    matches,     \* watchInvoices: result of the Limit(1) query
    http,        \* the HTTP front end is listening
    cancelled,   \* external cancellation (shutdown) has been requested
    \* ---- history variables (observations, never read by the program)
    passes,      \* number of calls of checkPayments made by main()
    scanRes,     \* outcome of the latest pass per record: "none" | "decodeErr" |
                 \* "lookupErr" (the RPC failed or lnd does not know the
                 \* invoice) | "unsettled" | "updated" | "updateErr" |
                 \* "conflictErr"
    reported,    \* payment requests lnd has reported settled to the process
                 \* (in this run or, for records found settled, an earlier one)
    exitCause,   \* why the process exited: "none" | "connFatal" | "listFatal" | "httpFatal"
    ledgerAtSub, \* hashes settled in lnd when the subscription was opened
    handled      \* payment request -> outcome of its latest stream event:
                 \* "none" | "discarded" (not settled) | "queryErr" |
                 \* "nomatch" | "updated" | "updateErr" | "conflictErr"

vars == <<store, ledger, mpc, spc, snapshot, si, wpc, subscribed, queue,
          streamEnd, sendClosed, ev, matches, http, cancelled, passes,
          scanRes, reported, exitCause,
          ledgerAtSub, handled>>

progVars == <<mpc, spc, snapshot, si, wpc, ev, matches, http>>
histVars == <<passes, scanRes, reported,
              exitCause, ledgerAtSub, handled>>
streamVars == <<subscribed, queue, streamEnd, sendClosed>>

NoEvent == [pr |-> 0, settled |-> FALSE]
NoScan == [r \in Recs |-> "none"]

\* How an Update call ended, as an observer of the store sees it: the write
\* was applied, the store failed, or the call returned an error although the
\* store was available.
WriteOutcome(ok, err) ==
    IF ~err THEN "updated" ELSE IF ok THEN "conflictErr" ELSE "updateErr"
Running == mpc # "exit"

\* ----------------------------------------------------------- Firestore
\* Collection("messages").Where("settled", "==", false).Documents().GetAll():
\* the unsettled documents, in document order.
RECURSIVE ListFrom(_, _)
ListFrom(st, r) ==
    IF r > NumRecords THEN <<>>
    ELSE (IF st[r].settled THEN <<>> ELSE <<r>>) \o ListFrom(st, r + 1)

ListUnsettled(st) == ListFrom(st, 1)

\* Variant of FindByInvoiceLimit1: the Where clause is missing, so that the
\* first document of the collection is the result.
FindAnyLimit1(st, pr) == <<1>>

\* Collection("messages").Where("invoice", "==", pr).Limit(1): at most one
\* document, the first in document order.
FindByInvoiceLimit1(st, pr) ==
    LET m == {r \in Recs : st[r].invoice = pr}
    IN  IF m = {} THEN <<>>
        ELSE <<CHOOSE r \in m : \A q \in m : r <= q>>

\* Update as a plausible slip would have it: the field is flipped.
UpdateToggle(st, r, ok) ==
    [store |-> IF ok THEN [st EXCEPT ![r].settled = ~st[r].settled] ELSE st,
     err |-> ~ok]

\* Update as a plausible slip would have it: the call reports success but
\* writes nothing.
UpdateNoop(st, r, ok) ==
    [store |-> st, err |-> ~ok]

\* Update as a plausible slip would have it: a precondition "settled is
\* false", so that the second of two writers gets an error.
UpdateConditional(st, r, ok) ==
    [store |-> IF ok THEN [st EXCEPT ![r].settled = TRUE] ELSE st,
     err |-> ~ok \/ st[r].settled]

\* s.Ref.Update(ctx, []firestore.Update{{Path: "settled", Value: true}}):
\* no precondition on the current value; fails only when the store does.
Update(st, r, ok) ==
    [store |-> IF ok THEN [st EXCEPT ![r].settled = TRUE] ELSE st,
     err |-> ~ok]

\* ----------------------------------------------------------------- lnd
\* GetSettled as a plausible slip would have it: the flag is not looked at.
GetSettledAlways(inv) == TRUE

\* lnInvoice.GetSettled() / invoice.GetSettled(): the Settled field.
GetSettled(inv) == inv.settled

\* c.LookupInvoice(ctx, &PaymentHash{RHashStr: h}): an error when the RPC
\* fails or lnd has no invoice with this hash, else the invoice.
LookupInvoice(lg, h, ok) ==
    IF ~ok \/ h \notin Hashes \/ lg[h] = "absent"
    THEN [err |-> TRUE, invoice |-> NoEvent]
    ELSE [err |-> FALSE,
          invoice |-> [pr |-> PayReqOf(h), settled |-> lg[h] = "settled"]]

\* ---------------------------------------------------------------- Init
\* The state when main() reaches line 275.  Every document carries a string
\* "invoice" field (line 44 asserts it); a document found settled is one an
\* earlier run marked, for an invoice this lnd has settled and reported.
Init ==
    /\ store \in [Recs -> [invoice : PayReqs, settled : BOOLEAN]]
    /\ ledger \in [Hashes -> {"absent", "open", "settled"}]
    /\ \A r \in Recs :
          store[r].settled =>
             /\ store[r].invoice \in Invoices
             /\ ledger[PaymentHashOf(store[r].invoice)] = "settled"
    /\ mpc = "init"
    /\ spc = "idle"
    /\ snapshot = <<>>
    /\ si = 1
    /\ wpc = "idle"
    /\ subscribed = FALSE
    /\ queue = <<>>
    /\ streamEnd = "none"
    /\ sendClosed = FALSE
    /\ ev = NoEvent
    /\ matches = <<>>
    /\ http = FALSE
    /\ cancelled = FALSE
    /\ passes = 0
    /\ scanRes = NoScan
    /\ reported = {store[r].invoice : r \in {q \in Recs : store[q].settled}}
    /\ exitCause = "none"
    /\ ledgerAtSub = {}
    /\ handled = [pr \in Invoices |-> "none"]

\* ------------------------------------------------------------ main()
\* main, line 275: checkPayments() is called once, synchronously.
CallCheckPayments ==
    /\ mpc = "init"
    /\ mpc' = "check"
    /\ spc' = "list"
    /\ passes' = passes + 1
    /\ scanRes' = NoScan
    /\ UNCHANGED <<store, ledger, snapshot, si, wpc, ev, matches, http,
                   cancelled, streamVars, reported, exitCause, ledgerAtSub, handled>>

\* CallWatchInvoices as a plausible slip would have it: checkPayments is
\* started with "go", so that main goes on without waiting for it.
CallWatchInvoicesEarly ==
    /\ mpc = "check"
    /\ mpc' = "watch"
    /\ wpc' = "subscribe"
    /\ UNCHANGED <<store, ledger, spc, snapshot, si, ev, matches, http,
                   cancelled, streamVars, histVars>>

\* main, line 276: watchInvoices() is called synchronously once
\* checkPayments() has returned.
CallWatchInvoices ==
    /\ mpc = "check"
    /\ spc = "done"
    /\ mpc' = "watch"
    /\ wpc' = "subscribe"
    /\ UNCHANGED <<store, ledger, spc, snapshot, si, ev, matches, http,
                   cancelled, streamVars, histVars>>

\* main, lines 278-319: the REST api is built and ListenAndServe is reached
\* only after watchInvoices() has returned; log.Fatal ends the process when
\* the listener cannot be started.
StartHTTP ==
    /\ mpc = "watch"
    /\ wpc = "returned"
    /\ \E ok \in BOOLEAN :
          IF ok
          THEN /\ mpc' = "serve"
               /\ http' = TRUE
               /\ UNCHANGED exitCause
          ELSE /\ mpc' = "exit"
               /\ http' = FALSE
               /\ exitCause' = "httpFatal"
    /\ UNCHANGED <<store, ledger, spc, snapshot, si, wpc, ev, matches,
                   cancelled, streamVars, passes, scanRes, reported, ledgerAtSub, handled>>

\* ---------------------------------------------------- checkPayments()
\* lines 33-42: getClient() (getClientConn calls fatal(), that is
\* os.Exit(1), when the credentials cannot be loaded or the dial fails), then
\* list the unsettled documents; when the listing fails, log.Fatalln logs
\* and calls os.Exit(1) (the return after it is never reached).
ScanList ==
    /\ Running
    /\ spc = "list"
    /\ \E outcome \in {"ok", "connFatal", "listFatal"} :
          IF outcome = "ok"
          THEN /\ snapshot' = ListUnsettled(store)
               /\ si' = 1
               /\ spc' = IF ListUnsettled(store) = <<>> THEN "done" ELSE "lookup"
               /\ UNCHANGED <<mpc, exitCause>>
          ELSE /\ mpc' = "exit"
               /\ exitCause' = outcome
               /\ UNCHANGED <<snapshot, si, spc>>
    /\ UNCHANGED <<store, ledger, wpc, ev, matches, http, cancelled,
                   streamVars, passes, scanRes, reported, ledgerAtSub,
                   handled>>

\* The record the loop of checkPayments is at.
CurRec == snapshot[si]

\* End of one iteration of the loop at lines 43-67.
\* Variant of ScanAdvance: the loop is left (return) instead of continued.
ScanAdvanceAbort ==
    /\ spc' = "done"
    /\ snapshot' = <<>>
    /\ si' = 1

ScanAdvance ==
    IF si + 1 > Len(snapshot)
    THEN /\ spc' = "done"
         /\ snapshot' = <<>>
         /\ si' = 1
    ELSE /\ spc' = "lookup"
         /\ si' = si + 1
         /\ UNCHANGED snapshot

\* lines 44-57: DecodePayReq, on error print and continue; LookupInvoice by
\* the decoded payment hash, where an error (the RPC failed or lnd does not
\* know the invoice) is printed and the record is left alone; the write is
\* issued only when the invoice is settled.
ScanLookup ==
    /\ Running
    /\ spc = "lookup"
    /\ \E decoded, ok \in BOOLEAN :
          LET res == LookupInvoice(ledger, PaymentHashOf(store[CurRec].invoice), ok)
          IN  IF ~decoded
              THEN /\ ScanAdvance
                   /\ scanRes' = [scanRes EXCEPT ![CurRec] = "decodeErr"]
                   /\ UNCHANGED reported
              ELSE IF res.err
              THEN /\ ScanAdvance
                   /\ scanRes' = [scanRes EXCEPT ![CurRec] = "lookupErr"]
                   /\ UNCHANGED reported
              ELSE /\ reported' = IF res.invoice.settled
                                  THEN reported \cup {res.invoice.pr} ELSE reported
                   /\ IF GetSettled(res.invoice)
                      THEN /\ spc' = "update"
                           /\ UNCHANGED <<si, snapshot, scanRes>>
                      ELSE /\ ScanAdvance
                           /\ scanRes' = [scanRes EXCEPT ![CurRec] = "unsettled"]
    /\ UNCHANGED <<store, ledger, mpc, wpc, ev, matches, http, cancelled,
                   streamVars, passes, exitCause, ledgerAtSub, handled>>

\* Variant of ScanUpdate: a failed Update ends the pass (return) instead of
\* being logged.
ScanUpdateFatal ==
    /\ Running
    /\ spc = "update"
    /\ \E ok \in BOOLEAN :
          LET res == Update(store, CurRec, ok)
          IN  /\ store' = res.store
              /\ scanRes' = [scanRes EXCEPT ![CurRec] = WriteOutcome(ok, res.err)]
              /\ IF res.err THEN ScanAdvanceAbort ELSE ScanAdvance
    /\ UNCHANGED <<ledger, mpc, wpc, ev, matches, http, cancelled,
                   streamVars, passes, reported, exitCause,
                   ledgerAtSub, handled>>

\* lines 58-63: s.Ref.Update(settled = true); the error is logged
\* ("Update failed"), success too ("Updated").
ScanUpdate ==
    /\ Running
    /\ spc = "update"
    /\ \E ok \in BOOLEAN :
          LET res == Update(store, CurRec, ok)
          IN  /\ store' = res.store
              /\ scanRes' = [scanRes EXCEPT ![CurRec] = WriteOutcome(ok, res.err)]
    /\ ScanAdvance
    /\ UNCHANGED <<ledger, mpc, wpc, ev, matches, http, cancelled,
                   streamVars, passes, reported, exitCause,
                   ledgerAtSub, handled>>

\* lines 32 and 68: "func checkPayments()" declares no result and ends by
\* falling off the loop: the tuple of values handed to the caller is empty.
\* The outcomes of the pass go to the log only (lines 47, 55, 60, 62).
CheckPaymentsResult == <<>>

\* ---------------------------------------------------- watchInvoices()
\* lines 71-78: getClient(), as in checkPayments, then
\* SubscribeInvoices(context.Background(), &InvoiceSubscription{}).  The
\* subscription carries the invoices added or settled from now on; on error
\* the function prints it and returns.
WatchSubscribe ==
    /\ Running
    /\ wpc = "subscribe"
    /\ \E outcome \in {"ok", "connFatal", "subscribeErr"} :
          /\ wpc' = CASE outcome = "ok" -> "recv"
                      [] outcome = "connFatal" -> wpc
                      [] OTHER -> "returned"
          /\ subscribed' = (outcome = "ok")
          /\ ledgerAtSub' = IF outcome = "ok"
                            THEN {h \in Hashes : ledger[h] = "settled"}
                            ELSE ledgerAtSub
          /\ mpc' = IF outcome = "connFatal" THEN "exit" ELSE mpc
          /\ exitCause' = IF outcome = "connFatal" THEN outcome ELSE exitCause
    /\ UNCHANGED <<store, ledger, spc, snapshot, si, queue, streamEnd,
                   sendClosed, ev, matches, http, cancelled, passes, scanRes,
                   reported, handled>>

\* Variant of WatchRecv: after a Recv error other than io.EOF the consumer
\* subscribes again instead of returning.
WatchRecvResubscribe ==
    /\ Running
    /\ wpc = "recv"
    /\ \/ /\ queue # <<>>
          /\ streamEnd # "err"
          /\ ev' = IF GetSettled(Head(queue)) THEN Head(queue) ELSE NoEvent
          /\ queue' = Tail(queue)
          /\ wpc' = IF GetSettled(Head(queue)) THEN "query" ELSE "recv"
          /\ reported' = IF Head(queue).settled
                         THEN reported \cup {Head(queue).pr} ELSE reported
          /\ handled' = IF Head(queue).settled THEN handled
                        ELSE [handled EXCEPT ![Head(queue).pr] = "discarded"]
          /\ UNCHANGED <<subscribed, sendClosed>>
       \/ /\ streamEnd = "eof"
          /\ queue = <<>>
          /\ sendClosed' = TRUE
          /\ wpc' = "returned"
          /\ subscribed' = FALSE
          /\ UNCHANGED <<ev, queue, reported, handled>>
       \/ /\ streamEnd = "err"
          /\ wpc' = "subscribe"
          /\ subscribed' = FALSE
          /\ queue' = <<>>
          /\ UNCHANGED <<ev, sendClosed, reported, handled>>
    /\ UNCHANGED <<store, ledger, mpc, spc, snapshot, si, streamEnd, matches,
                   http, cancelled, passes, scanRes, exitCause, ledgerAtSub>>

\* Variant of WatchRecv: the event is handled in a goroutine, so that Recv
\* is called again while the store calls of the event before are under way.
WatchRecvAsync ==
    /\ Running
    /\ wpc \in {"recv", "query", "update"}
    /\ \/ /\ queue # <<>>
          /\ streamEnd # "err"
          /\ ev' = IF GetSettled(Head(queue)) THEN Head(queue) ELSE NoEvent
          /\ queue' = Tail(queue)
          /\ wpc' = IF GetSettled(Head(queue)) THEN "query" ELSE "recv"
          /\ reported' = IF Head(queue).settled
                         THEN reported \cup {Head(queue).pr} ELSE reported
          /\ handled' = IF Head(queue).settled THEN handled
                        ELSE [handled EXCEPT ![Head(queue).pr] = "discarded"]
          /\ UNCHANGED <<subscribed, sendClosed>>
       \/ /\ streamEnd = "eof"
          /\ queue = <<>>
          /\ sendClosed' = TRUE
          /\ wpc' = "returned"
          /\ subscribed' = FALSE
          /\ UNCHANGED <<ev, queue, reported, handled>>
       \/ /\ streamEnd = "err"
          /\ wpc' = "returned"
          /\ subscribed' = FALSE
          /\ queue' = <<>>
          /\ UNCHANGED <<ev, sendClosed, reported, handled>>
    /\ UNCHANGED <<store, ledger, mpc, spc, snapshot, si, streamEnd, matches,
                   http, cancelled, passes, scanRes, exitCause, ledgerAtSub>>

\* lines 80-89: sub.Recv().  io.EOF (after every event sent was received):
\* CloseSend, print, return.  Another error: print, return.  An invoice:
\* go on to the store query when it is settled, else back to Recv.  The
\* deferred clean() closes the connection on return.
WatchRecv ==
    /\ Running
    /\ wpc = "recv"
    /\ \/ /\ queue # <<>>
          /\ streamEnd # "err"
          /\ ev' = IF GetSettled(Head(queue)) THEN Head(queue) ELSE NoEvent
          /\ queue' = Tail(queue)
          /\ wpc' = IF GetSettled(Head(queue)) THEN "query" ELSE "recv"
          /\ reported' = IF Head(queue).settled
                         THEN reported \cup {Head(queue).pr} ELSE reported
          /\ handled' = IF Head(queue).settled THEN handled
                        ELSE [handled EXCEPT ![Head(queue).pr] = "discarded"]
          /\ UNCHANGED <<subscribed, sendClosed>>
       \/ /\ streamEnd = "eof"
          /\ queue = <<>>
          /\ sendClosed' = TRUE
          /\ wpc' = "returned"
          /\ subscribed' = FALSE
          /\ UNCHANGED <<ev, queue, reported, handled>>
       \/ /\ streamEnd = "err"
          /\ wpc' = "returned"
          /\ subscribed' = FALSE
          /\ queue' = <<>>
          /\ UNCHANGED <<ev, sendClosed, reported, handled>>
    /\ UNCHANGED <<store, ledger, mpc, spc, snapshot, si, streamEnd, matches,
                   http, cancelled, passes, scanRes, exitCause, ledgerAtSub>>

\* Variant of WatchQuery: a failed query ends watchInvoices (return) instead
\* of the iteration (continue).
WatchQueryReturn ==
    /\ Running
    /\ wpc = "query"
    /\ \E ok \in BOOLEAN :
          IF ok
          THEN LET found == FindByInvoiceLimit1(store, ev.pr)
               IN  /\ matches' = found
                   /\ wpc' = IF found = <<>> THEN "recv" ELSE "update"
                   /\ ev' = IF found = <<>> THEN NoEvent ELSE ev
                   /\ handled' = IF found = <<>>
                                 THEN [handled EXCEPT ![ev.pr] = "nomatch"]
                                 ELSE handled
          ELSE /\ wpc' = "returned"
               /\ ev' = NoEvent
               /\ handled' = [handled EXCEPT ![ev.pr] = "queryErr"]
               /\ UNCHANGED matches
    /\ UNCHANGED <<store, ledger, mpc, spc, snapshot, si, http, cancelled,
                   streamVars, passes, scanRes, reported, exitCause, ledgerAtSub>>

\* lines 91-96: query the documents whose invoice is the event's payment
\* request, Limit(1); on error print and continue with the next Recv.
WatchQuery ==
    /\ Running
    /\ wpc = "query"
    /\ \E ok \in BOOLEAN :
          IF ok
          THEN LET found == FindByInvoiceLimit1(store, ev.pr)
               IN  /\ matches' = found
                   /\ wpc' = IF found = <<>> THEN "recv" ELSE "update"
                   /\ ev' = IF found = <<>> THEN NoEvent ELSE ev
                   /\ handled' = IF found = <<>>
                                 THEN [handled EXCEPT ![ev.pr] = "nomatch"]
                                 ELSE handled
          ELSE /\ wpc' = "recv"
               /\ ev' = NoEvent
               /\ handled' = [handled EXCEPT ![ev.pr] = "queryErr"]
               /\ UNCHANGED matches
    /\ UNCHANGED <<store, ledger, mpc, spc, snapshot, si, http, cancelled,
                   streamVars, passes, scanRes, reported, exitCause, ledgerAtSub>>

\* lines 97-99: s.Ref.Update(settled = true) for each document of the query
\* result; the result of Update is discarded.
WatchUpdate ==
    /\ Running
    /\ wpc = "update"
    /\ \E ok \in BOOLEAN :
          LET r == Head(matches)
              res == Update(store, r, ok)
          IN  /\ store' = res.store
              /\ handled' = IF handled[ev.pr] \in {"updateErr", "conflictErr"}
                            THEN handled
                            ELSE [handled EXCEPT ![ev.pr] = WriteOutcome(ok, res.err)]
    /\ matches' = Tail(matches)
    /\ wpc' = IF Tail(matches) = <<>> THEN "recv" ELSE "update"
    /\ ev' = IF Tail(matches) = <<>> THEN NoEvent ELSE ev
    /\ UNCHANGED <<ledger, mpc, spc, snapshot, si, http, cancelled,
                   streamVars, passes, scanRes, reported, exitCause,
                   ledgerAtSub>>

\* --------------------------------------------------------- environment
\* lnd sends an invoice on the open subscription.
Emit(pr, isSettled) ==
    IF subscribed /\ streamEnd = "none"
    THEN queue' = Append(queue, [pr |-> pr, settled |-> isSettled])
    ELSE UNCHANGED queue

\* An invoice is added to lnd.
AddInvoice(h) ==
    /\ Running
    /\ ~cancelled
    /\ ledger[h] = "absent"
    /\ ledger' = [ledger EXCEPT ![h] = "open"]
    /\ Emit(PayReqOf(h), FALSE)
    /\ UNCHANGED <<store, progVars, subscribed, streamEnd, sendClosed,
                   cancelled, histVars>>

\* An invoice of lnd is paid.
SettleInvoice(h) ==
    /\ Running
    /\ ~cancelled
    /\ ledger[h] = "open"
    /\ ledger' = [ledger EXCEPT ![h] = "settled"]
    /\ Emit(PayReqOf(h), TRUE)
    /\ UNCHANGED <<store, progVars, subscribed, streamEnd, sendClosed,
                   cancelled, histVars>>

\* lnd ends the subscription ("eof") or the connection breaks ("err").
StreamEnds(kind) ==
    /\ Running
    /\ ~cancelled
    /\ subscribed
    /\ streamEnd = "none"
    /\ streamEnd' = kind
    /\ UNCHANGED <<store, ledger, progVars, subscribed, queue, sendClosed,
                   cancelled, histVars>>

\* Shutdown is requested while watchInvoices is blocked in Recv with nothing
\* to receive.  Every context the process hands to lnd and to Firestore is
\* context.Background(), which is never cancelled, so no step of the process
\* reads this.  From here on lnd stays silent: the process is followed alone.
Cancel ==
    /\ Running
    /\ wpc = "recv"
    /\ queue = <<>>
    /\ streamEnd = "none"
    /\ ~cancelled
    /\ cancelled' = TRUE
    /\ UNCHANGED <<store, ledger, progVars, streamVars, histVars>>

\* The disabled watchPayments (lines 18-30): a ticker goroutine that calls
\* checkPayments() again, each time the previous call has returned, while
\* main is in watchInvoices or serving.
TickerCheckPayments ==
    /\ mpc \in {"watch", "serve"}
    /\ spc = "done"
    /\ spc' = "list"
    /\ scanRes' = NoScan
    /\ UNCHANGED <<store, ledger, mpc, snapshot, si, wpc, ev, matches, http,
                   cancelled, streamVars, passes, reported, exitCause,
                   ledgerAtSub, handled>>

\* ------------------------------------------------------ specifications
Scanner == ScanList \/ ScanLookup \/ ScanUpdate

Consumer == WatchSubscribe \/ WatchRecv \/ WatchQuery \/ WatchUpdate

Program == CallCheckPayments \/ CallWatchInvoices \/ StartHTTP \/ Scanner \/ Consumer

Environment ==
    \/ \E h \in Hashes : AddInvoice(h)
    \/ \E h \in Hashes : SettleInvoice(h)
    \/ \E kind \in {"eof", "err"} : StreamEnds(kind)
    \/ Cancel

Next == Program \/ Environment

\* The program as main() runs it.
Spec == Init /\ [][Next]_vars

\* The program under a fair scheduler: a step of the process that stays
\* possible is taken; the environment owes nothing.
FairSpec == Init /\ [][Next]_vars /\ WF_vars(Program)

\* The program with the periodic re-scan of watchPayments switched on.
TickerNext == Next \/ TickerCheckPayments

TickerSpec == Init /\ [][TickerNext]_vars

\* ============================================================== claims
\* A remote call of the latest pass failed for some record.
NoPerRecordFailure ==
    \A r \in Recs : scanRes[r] \notin {"decodeErr", "lookupErr", "updateErr"}

\* The consumer issued its write to record r for the settled event of r's
\* payment request.
ConsumerWrote(r) ==
    /\ store[r].invoice \in Invoices
    /\ handled[store[r].invoice] \in {"updated", "updateErr", "conflictErr"}
    /\ FindByInvoiceLimit1(store, store[r].invoice) = <<r>>

\* LookupInvoice answered "settled" for record r in the latest pass, so that
\* the pass issued the write.
ScannerWrote(r) == scanRes[r] \in {"updated", "updateErr", "conflictErr"}

\* C1: a record is settled in the store only if lnd has reported its invoice
\* settled, by a LookupInvoice answer or by a settled invoice received on
\* the subscription.
C1_NoFalsePositive ==
    \A r \in Recs : store[r].settled => store[r].invoice \in reported

\* C1 witness: each of the two update paths has marked a record.
C1_Witness ==
    /\ \E r \in Recs : scanRes[r] = "updated" /\ store[r].settled
    /\ \E r \in Recs : ConsumerWrote(r) /\ store[r].settled
                          /\ handled[store[r].invoice] = "updated"

\* C2: no step takes a record from settled back to unsettled.
C2_Monotonic ==
    [][\A r \in Recs : store[r].settled => store'[r].settled]_vars

\* C2 witness: a record has been written by both writers, so one of the
\* writes found it already settled.
C2_Witness ==
    \E r \in Recs :
        /\ scanRes[r] = "updated"
        /\ ConsumerWrote(r)
        /\ handled[store[r].invoice] = "updated"
        /\ store[r].settled

C4_RaceSafety ==
    /\ \A r \in Recs : scanRes[r] # "conflictErr"
    /\ \A pr \in Invoices : handled[pr] # "conflictErr"
    /\ \A r \in Recs :
          (/\ ScannerWrote(r)
           /\ ConsumerWrote(r)
           /\ ~(scanRes[r] = "updateErr" /\ handled[store[r].invoice] = "updateErr"))
          => store[r].settled

\* C4 witness: a pass that is still running and the consumer have both
\* written the same record, successfully: the record was unsettled when the
\* pass listed it, so the consumer's write fell inside the pass.
C4_Witness ==
    /\ spc \in {"lookup", "update"}
    /\ \E r \in Recs :
          /\ scanRes[r] = "updated"
          /\ ConsumerWrote(r)
          /\ handled[store[r].invoice] = "updated"
          /\ store[r].settled

\* C5: main() calls checkPayments exactly once, the pass is over before
\* watchInvoices is entered and before the subscription is open, the HTTP
\* part of main is reached only after watchInvoices has returned, and a pass
\* that ran to its end, with or without per-record errors, leaves main about
\* to call watchInvoices.
C5_StartupOrdering ==
    /\ passes <= 1
    /\ (wpc # "idle" => (passes = 1 /\ spc = "done"))
    /\ (subscribed => spc = "done")
    /\ (mpc = "serve" => wpc = "returned")
    /\ ((spc = "done" /\ wpc = "idle") => mpc = "check")

\* C5 witness: the consumer is listening after a pass in which a per-record
\* remote call failed.
C5_Witness ==
    /\ wpc = "recv"
    /\ subscribed
    /\ ~NoPerRecordFailure

\* C6: with no remote call of the pass failing, every record whose invoice
\* was settled in lnd when the subscription was opened is settled in the
\* store.
C6_GapClosure ==
    (wpc \in {"recv", "query", "update", "returned"}
       /\ \A r \in Recs : scanRes[r] \notin {"decodeErr", "lookupErr", "updateErr"})
    => \A r \in Recs :
          PaymentHashOf(store[r].invoice) \in ledgerAtSub => store[r].settled

\* C7: a failed listing does not end the process.
C7_ListFailureNotFatal ==
    exitCause = "listFatal" => mpc # "exit"

\* C8: while the consumer is in its receive loop the HTTP front end comes up.
C8_FrontEndNotBlocked ==
    (wpc = "recv") ~> (http \/ mpc = "exit")

\* C9: a cancellation signalled while the consumer waits in Recv is followed
\* by the consumer's return.
C9_CancellationObserved ==
    (cancelled /\ wpc = "recv") ~> (wpc = "returned" \/ mpc = "exit")

\* C10: once a settled event has been processed without a store failure,
\* every record carrying the event's payment request is settled.
C10_AllMatchesMarked ==
    \A pr \in Invoices :
        (handled[pr] = "updated" /\ ev.pr # pr) =>
            \A r \in Recs : store[r].invoice = pr => store[r].settled

\* A step in which sub.Recv() hands an invoice to the loop.
RecvStep ==
    /\ wpc = "recv"
    /\ queue # <<>>
    /\ streamEnd # "err"
    /\ queue' = Tail(queue)

\* C11: receiving an invoice that is not settled issues no store query and
\* no store write: the store is unchanged, nothing is left to update and the
\* consumer is back at Recv.
C11_UnsettledEventIgnored ==
    [][(RecvStep /\ ~Head(queue).settled) =>
          (store' = store /\ wpc' = "recv" /\ matches' = <<>> /\ ev' = NoEvent)]_vars

\* C11 witness: an invoice that is not settled has been received and dropped,
\* and the consumer is at Recv again.
C11_Witness ==
    /\ wpc = "recv"
    /\ \E pr \in Invoices : handled[pr] = "discarded"

\* C12: when LookupInvoice for a record of a pass fails or answers "not
\* found", that step writes nothing, no write for the record follows in the
\* pass, and the pass goes on with the next record of the listing; at the
\* end of the pass every record that is still unsettled has been processed.
C12_LookupFailureSkipsRecord ==
    [][/\ \A r \in Recs :
            /\ (scanRes[r] = "none" /\ scanRes'[r] = "lookupErr")
                  => /\ spc = "lookup" /\ r = CurRec
                     /\ store' = store
                     /\ ~store[r].settled
                     /\ IF si < Len(snapshot)
                        THEN spc' = "lookup" /\ si' = si + 1 /\ snapshot' = snapshot
                        ELSE spc' = "done"
            /\ (scanRes[r] = "lookupErr" /\ wpc = "idle")
                  => (scanRes'[r] = scanRes[r] /\ store'[r] = store[r])
       /\ (spc' = "done" /\ wpc' = "idle")
            => \A r \in Recs : ~store'[r].settled => scanRes'[r] # "none"]_vars

\* C12 witness: the pass is over, the lookup for an earlier record, whose
\* invoice this lnd does not know, failed and the record is still unsettled,
\* a later record of the listing was marked.
C12_Witness ==
    /\ spc = "done"
    /\ wpc = "idle"
    /\ \E r, q \in Recs :
          /\ r < q
          /\ store[r].invoice \notin Invoices
          /\ scanRes[r] = "lookupErr"
          /\ ~store[r].settled
          /\ scanRes[q] = "updated"
          /\ store[q].settled

\* The number of records whose Update succeeded in the pass, and the last
\* per-record error of the pass in listing order ("nil" when there is none).
UpdatedCount == Cardinality({r \in Recs : scanRes[r] = "updated"})

PerRecordErrors == {"decodeErr", "lookupErr", "updateErr", "conflictErr"}

LastErr ==
    LET failed == {r \in Recs : scanRes[r] \in PerRecordErrors}
    IN  IF failed = {} THEN "nil"
        ELSE scanRes[CHOOSE r \in failed : \A q \in failed : q <= r]

\* C13: when a pass has returned, its caller holds the number of records
\* whose mark-settled write succeeded in the pass together with the last
\* per-record error.
C13_PassReportsCount ==
    (spc = "done" /\ mpc = "check")
        => CheckPaymentsResult = <<UpdatedCount, LastErr>>

\* The step is the pass's Update call for the current record / the
\* consumer's Update call for the document of its query result.
ScanWriteStep == spc = "update" /\ scanRes'[CurRec] # scanRes[CurRec]

WatchWriteStep == wpc = "update" /\ matches' = Tail(matches)

\* C14: an Update call of either path on a record that is already settled
\* leaves the store as the first write left it (the record is still
\* settled, nothing else changed) and returns no error unless the store
\* itself failed.
C14_MarkSettledIdempotent ==
    [][/\ (ScanWriteStep /\ store[CurRec].settled)
            => /\ store' = store
               /\ scanRes'[CurRec] \in {"updated", "updateErr"}
       /\ (WatchWriteStep /\ store[Head(matches)].settled)
            => /\ store' = store
               /\ handled'[ev.pr] \in {"updated", "updateErr"}]_vars

\* C14 witness: pass and consumer have both written the same record with
\* success, the later of the two on a record the earlier had settled; the
\* pass is over and the consumer is at Recv again.
C14_Witness ==
    /\ spc = "done"
    /\ wpc = "recv"
    /\ \E r \in Recs :
          /\ store[r].settled
          /\ scanRes[r] = "updated"
          /\ ConsumerWrote(r)
          /\ handled[store[r].invoice] = "updated"

\* C15: CloseSend is called only on end-of-stream; a Recv that returns
\* io.EOF ends watchInvoices with the send side closed, a Recv that returns
\* another error ends it too; once watchInvoices has returned there is no
\* receive, no store write and no new subscription.
C15_StreamTermination ==
    [][/\ sendClosed' => (streamEnd' = "eof" /\ wpc' = "returned")
       /\ (wpc' = "returned") => ~subscribed'
       /\ (wpc = "recv" /\ wpc' # "recv" /\ streamEnd = "eof" /\ queue = <<>>)
            => (wpc' = "returned" /\ sendClosed' /\ store' = store)
       /\ (wpc = "recv" /\ wpc' # "recv" /\ streamEnd = "err")
            => (wpc' = "returned" /\ ~sendClosed' /\ store' = store)
       /\ (wpc = "returned")
            => /\ wpc' = "returned"
               /\ store' = store
               /\ queue' = queue
               /\ ev' = ev /\ matches' = matches /\ handled' = handled
               /\ subscribed' = subscribed /\ sendClosed' = sendClosed]_vars

\* C15 witness: the consumer marked a record for a settled invoice, then
\* Recv returned io.EOF: the send side is closed and watchInvoices is over.
C15_Witness ==
    /\ wpc = "returned"
    /\ streamEnd = "eof"
    /\ sendClosed
    /\ \E pr \in Invoices : handled[pr] = "updated"

\* A step that takes something from the stream: an event, or the error that
\* ends the loop.
StreamReadStep ==
    \/ Len(queue') < Len(queue)
    \/ wpc \in {"recv", "query", "update"} /\ wpc' = "returned"

\* C16: the consumer reads from the stream only when no event is being
\* handled (no query and no write of an earlier event is outstanding), it
\* takes the oldest event of the stream, and the event it handles next is
\* that one; a write of the consumer is for the event in hand, whose query
\* result holds at most one document.
C16_StreamOrdering ==
    [][/\ (wpc' \in {"query", "update"}) <=> (ev' # NoEvent)
       /\ (wpc' = "update") <=> (matches' # <<>>)
       /\ Len(matches') <= 1
       /\ StreamReadStep
            => (wpc = "recv" /\ ev = NoEvent /\ matches = <<>>)
       /\ (Len(queue') < Len(queue) /\ streamEnd # "err")
            => /\ queue' = Tail(queue)
               /\ ev' = IF Head(queue).settled THEN Head(queue) ELSE NoEvent
       /\ (Len(queue') > Len(queue))
            => (Len(queue') = Len(queue) + 1 /\ SubSeq(queue', 1, Len(queue)) = queue)
       /\ WatchWriteStep
            => (ev.settled /\ store[Head(matches)].invoice = ev.pr)
       /\ (ev # NoEvent /\ ev' # ev) => ev' = NoEvent]_vars

\* C16 witness: the stream delivered the "added" event and then the
\* "settled" event of an invoice; the first has been handled (dropped), the
\* second is in hand with its write outstanding.
C16_Witness ==
    /\ wpc = "update"
    /\ ev.settled
    /\ ev.pr \in Invoices
    /\ handled[ev.pr] = "discarded"

\* The pass is inside its loop over the listing.
InLoop == spc \in {"lookup", "update"}

\* C17: during a pass the listing holds each record once, the records before
\* the current one have their one outcome and the current and later ones
\* have none yet; a record's outcome is written once; each step of the pass
\* either issues the one write for the current record after its one lookup
\* or moves to the next record, also after a decode failure or a failed
\* write; the pass writes only the current record; and when the pass is over
\* every listed record was visited and the records whose write succeeded
\* are settled.
C17_PartialProgress ==
    [][/\ InLoop' =>
            /\ si' \in 1..Len(snapshot')
            /\ \A i, j \in 1..Len(snapshot') : snapshot'[i] = snapshot'[j] => i = j
            /\ \A i \in 1..Len(snapshot') : (scanRes'[snapshot'[i]] # "none") <=> (i < si')
            /\ \A r \in Recs :
                  (\A i \in 1..Len(snapshot') : snapshot'[i] # r) => scanRes'[r] = "none"
       /\ (spc' = "done" /\ wpc' = "idle") =>
            \A r \in Recs : /\ ~store'[r].settled => scanRes'[r] # "none"
                            /\ scanRes'[r] = "updated" => store'[r].settled
       /\ \A r \in Recs : scanRes[r] # "none" => scanRes'[r] = scanRes[r]
       /\ (InLoop /\ <<spc, si>>' # <<spc, si>>) =>
            /\ scanRes'[CurRec] # "none" \/ (spc = "lookup" /\ spc' = "update" /\ si' = si)
            /\ scanRes'[CurRec] # "none" =>
                  IF si < Len(snapshot)
                  THEN spc' = "lookup" /\ si' = si + 1 /\ snapshot' = snapshot
                  ELSE spc' = "done"
       /\ (wpc = "idle" /\ store' # store) =>
            /\ spc = "update"
            /\ \A r \in Recs : r # CurRec => store'[r] = store[r]]_vars

\* C17 witness: the pass is over; for an earlier record of the listing the
\* decode or the write failed and it is still unsettled, a later record was
\* marked settled.
C17_Witness ==
    /\ spc = "done"
    /\ wpc = "idle"
    /\ \E r, q \in Recs :
          /\ r < q
          /\ scanRes[r] \in {"decodeErr", "updateErr"}
          /\ ~store[r].settled
          /\ scanRes[q] = "updated"
          /\ store[q].settled

\* The mark-settled write for record r, or the store query before it, failed
\* although lnd reported r's invoice settled: in the pass, or in the
\* consumer's handling of the invoice's settled event.
ReflectionFailed(r) ==
    \/ scanRes[r] = "updateErr"
    \/ /\ store[r].invoice \in Invoices
       /\ handled[store[r].invoice] \in {"queryErr", "updateErr"}
       /\ FindByInvoiceLimit1(store, store[r].invoice) = <<r>>

\* C18: a record whose mark-settled write or store query failed is settled
\* at some later point of the same process run (the formula also accepts
\* that the run or the consumer ends first).
C18_EventualReflection ==
    \A r \in Recs :
        (ReflectionFailed(r) /\ ~store[r].settled)
            ~> (store[r].settled \/ mpc = "exit" \/ wpc = "returned")

\* The records whose invoice field is the payment request pr.
Matching(pr) == {r \in Recs : store[r].invoice = pr}

\* C19: when the consumer's query for a settled event whose payment request
\* no record carries returns, nothing is written and the consumer is back at
\* Recv with no event in hand; unless the store failed the outcome is "no
\* match", which is not an error; no write for that event follows.
C19_NoMatchNoWrite ==
    [][/\ (wpc = "query" /\ wpc' # "query" /\ Matching(ev.pr) = {})
            => /\ store' = store
               /\ wpc' = "recv"
               /\ matches' = <<>>
               /\ ev' = NoEvent
               /\ handled'[ev.pr] \in {"nomatch", "queryErr"}
       /\ \A pr \in Invoices :
            /\ handled'[pr] = "nomatch" => Matching(pr)' = {}
            /\ handled[pr] = "nomatch"
                  => (handled'[pr] = "nomatch" /\ (wpc' = "update" => ev'.pr # pr))]_vars

\* C19 witness: a settled event for a payment request that no record carries
\* was handled with outcome "no match" and the consumer is at Recv.
C19_Witness ==
    /\ wpc = "recv"
    /\ \E pr \in Invoices : handled[pr] = "nomatch" /\ Matching(pr) = {}

\* C20: a failed query or a failed Update while a settled event is handled
\* leaves the store unchanged and puts the consumer back at Recv with no
\* event in hand; the event's outcome stays what it was and its record is
\* not written afterwards (no retry); handling an event never ends
\* watchInvoices: it ends only before the loop, when the subscription cannot
\* be opened, or at Recv with the stream ended or failed.
C20_StoreFailureNotFatal ==
    [][/\ \A pr \in Invoices :
            /\ (handled[pr] \notin {"queryErr", "updateErr"}
                  /\ handled'[pr] \in {"queryErr", "updateErr"})
                  => /\ wpc \in {"query", "update"}
                     /\ ev.pr = pr
                     /\ store' = store
                     /\ wpc' = "recv"
                     /\ ev' = NoEvent
                     /\ matches' = <<>>
            /\ (handled[pr] \in {"queryErr", "updateErr"})
                  => /\ handled'[pr] = handled[pr]
                     /\ \A r \in Matching(pr) : store'[r] = store[r]
       /\ (wpc \in {"query", "update"}) => wpc' \in {"query", "update", "recv"}
       /\ (wpc # "returned" /\ wpc' = "returned")
            => (wpc = "subscribe" \/ (wpc = "recv" /\ streamEnd # "none"))]_vars

\* C20 witness: the Update for a settled event failed; the record is still
\* unsettled and the consumer is at Recv on the open subscription.
C20_Witness ==
    /\ wpc = "recv"
    /\ subscribed
    /\ streamEnd = "none"
    /\ \E pr \in Invoices :
          /\ handled[pr] = "updateErr"
          /\ \E r \in Matching(pr) : ~store[r].settled

====
